---------------------------- MODULE Spec2Model ----------------------------
(***************************************************************************)
(* Model of data-quality-checkr: the rule engine (DataQualityChecker in    *)
(* main.py) and the result logger (DBConnector in connector/output_log.py).*)
(*                                                                         *)
(* A polars Series is a sequence of cells, a cell being a string or None.  *)
(* The SQLite table validation_log is a set of rows keyed by id; the       *)
(* sqlite_sequence counter of the AUTOINCREMENT key is the variable seq.   *)
(* The variable call records the operation the client last invoked (its    *)
(* arguments, what it raised or returned, and the table before it),        *)
(* logged the arguments of the log calls made on the storage location, in  *)
(* call order, and printed the lines written by print_all_logs.  conns is   *)
(* the state of the connections of concurrent writers (cli.py and          *)
(* output_log.py open one connection per call), and cli the last run of    *)
(* the command line (cli.py).                                              *)
(***************************************************************************)
EXTENDS Naturals, Sequences, FiniteSets

VARIABLES table, seq, logged, call, printed, conns, cli

vars == <<table, seq, logged, call, printed, conns, cli>>

-----------------------------------------------------------------------------
(* Bounds of the model.                                                    *)

MaxRows == 2

MaxAccepted == 2

MaxLog == 2

MaxRules == 2

-----------------------------------------------------------------------------
(* Values.                                                                 *)

\* Python's None / a polars null cell.
None == "None"

\* Non-null cell values; "a" and "A" differ only by case.
Strings == {"a", "A"}

Cells == Strings \cup {None}

SeqsUpTo(S, n) == UNION {[1..k -> S] : k \in 0..n}

ColNames == {"id", "parent_id"}

\* Column names passed by callers: the frame's names and one no frame has.
ArgNames == ColNames \cup {"missing"}

\* A DataFrame: a function from its column names to Series of one length.
\* Frames hold at most one column, as every frame of tests/unit/test_main.py.
FrameColumnSets == {{}} \cup {{c} : c \in ColNames}

Frames ==
    UNION {[cols -> [1..n -> Cells]] : cols \in FrameColumnSets, n \in 0..MaxRows}

AcceptedLists == SeqsUpTo(Cells, MaxAccepted)

\* datetime.now().isoformat(): the wall clock is an input of the program.
Timestamps == {"2024-01-01T00:00:00", "2024-01-01T00:00:01"}

-----------------------------------------------------------------------------
(* polars Series operations used by main.py.                               *)

\* Series.null_count()
null_count(s) == Cardinality({i \in DOMAIN s : s[i] = None})

\* Series.is_duplicated(): the mask of cells that occur more than once;
\* nulls are compared like any other value.
is_duplicated(s) ==
    [i \in DOMAIN s |-> \E j \in DOMAIN s : j # i /\ s[j] = s[i]]

\* Series.sum() of a boolean mask
sum(mask) == Cardinality({i \in DOMAIN mask : mask[i]})

\* The two null behaviours of Series.is_in a polars build can have:
\* "propagate": a null cell gives a null mask entry (nulls_equal=False, the
\* default of current releases); "literal": a null cell is looked up like a
\* value. A mask entry is "true", "false" or "null".
IsInModes == {"propagate", "literal"}

is_in(s, other, mode) ==
    [i \in DOMAIN s |->
        IF s[i] = None /\ mode = "propagate" THEN "null"
        ELSE IF \E j \in DOMAIN other : other[j] = s[i] THEN "true"
        ELSE "false"]

\* Series.all() with ignore_nulls=True (the default): null entries are skipped.
all(mask) == \A i \in DOMAIN mask : mask[i] # "false"

-----------------------------------------------------------------------------
(* json.dumps / json.loads on the mappings the program passes.             *)

\* A Python value of a mapping: a str, or a list of str/None.
JStr(s) == [kind |-> "str", s |-> s, items |-> <<>>]
JList(l) == [kind |-> "list", s |-> "", items |-> l]

\* Optional[Dict]: None, or a dict as its sequence of items in insertion order.
PyNone == [isNone |-> TRUE, items |-> <<>>]
PyDict(items) == [isNone |-> FALSE, items |-> items]
Item(k, v) == [k |-> k, v |-> v]

\* Python truthiness of an Optional[Dict]: None and {} are both falsy.
Truthy(p) == ~p.isNone /\ Len(p.items) > 0

\* The JSON text is a sequence of tokens.
Tok(p) == <<"punct", p>>
StrTok(s) == <<"string", s>>
NullTok == <<"literal", "null">>

DumpElem(e) == IF e = None THEN NullTok ELSE StrTok(e)

RECURSIVE DumpElems(_)
DumpElems(l) ==
    IF l = <<>> THEN <<>>
    ELSE IF Len(l) = 1 THEN <<DumpElem(l[1])>>
    ELSE <<DumpElem(l[1]), Tok(",")>> \o DumpElems(Tail(l))

DumpValue(v) ==
    IF v.kind = "str" THEN <<StrTok(v.s)>>
    ELSE <<Tok("[")>> \o DumpElems(v.items) \o <<Tok("]")>>

DumpItem(it) == <<StrTok(it.k), Tok(":")>> \o DumpValue(it.v)

RECURSIVE DumpItems(_)
DumpItems(d) ==
    IF d = <<>> THEN <<>>
    ELSE IF Len(d) = 1 THEN DumpItem(d[1])
    ELSE DumpItem(d[1]) \o <<Tok(",")>> \o DumpItems(Tail(d))

json_dumps(d) == <<Tok("{")>> \o DumpItems(d) \o <<Tok("}")>>

RECURSIVE ParseArray(_, _, _)
ParseArray(t, i, acc) ==
    IF t[i] = Tok("]") THEN [value |-> JList(acc), next |-> i + 1]
    ELSE IF t[i] = Tok(",") THEN ParseArray(t, i + 1, acc)
    ELSE ParseArray(t, i + 1,
                    Append(acc, IF t[i] = NullTok THEN None ELSE t[i][2]))

ParseValue(t, i) ==
    IF t[i] = Tok("[") THEN ParseArray(t, i + 1, <<>>)
    ELSE [value |-> JStr(t[i][2]), next |-> i + 1]

RECURSIVE ParseObject(_, _, _)
ParseObject(t, i, acc) ==
    IF t[i] = Tok("}") THEN acc
    ELSE IF t[i] = Tok(",") THEN ParseObject(t, i + 1, acc)
    ELSE LET v == ParseValue(t, i + 2)
         IN  ParseObject(t, v.next, Append(acc, Item(t[i][2], v.value)))

\* json.loads of the text of an object: the dict's items.
json_loads(t) == ParseObject(t, 2, <<>>)

-----------------------------------------------------------------------------
(* The validation_log table.                                               *)

\* A nullable TEXT column.
SqlNull == [null |-> TRUE, text |-> <<>>]
SqlText(t) == [null |-> FALSE, text |-> t]

Max(S) == IF S = {} THEN 0 ELSE CHOOSE m \in S : \A x \in S : x <= m

\* A faulty variant of NextId: the key is not advanced past the largest id in use.
NextId_noinc(tbl, sq) == Max({r.id : r \in tbl} \cup {sq})

\* INTEGER PRIMARY KEY AUTOINCREMENT: one more than the largest id ever used.
NextId(tbl, sq) == Max({r.id : r \in tbl} \cup {sq}) + 1

\* int(result)
int(b) == IF b THEN 1 ELSE 0

\* DBConnector.log, lines 50-63: the serialized parameters ...
params_json(additional_params) ==
    IF Truthy(additional_params) THEN SqlText(json_dumps(additional_params.items))
    ELSE SqlNull

\* ... and the row the INSERT adds.
NewRow(tbl, sq, ts, check_type, result, additional_params) ==
    [id |-> NextId(tbl, sq),
     timestamp |-> ts,
     check_type |-> check_type,
     result |-> int(result),
     additional_params |-> params_json(additional_params)]

Insert(tbl, sq, ts, check_type, result, additional_params) ==
    tbl \cup {NewRow(tbl, sq, ts, check_type, result, additional_params)}

\* SELECT ... FROM validation_log ORDER BY id
RECURSIVE OrderById(_)
OrderById(tbl) ==
    IF tbl = {} THEN <<>>
    ELSE LET first == CHOOSE r \in tbl : \A q \in tbl : r.id <= q.id
         IN  <<first>> \o OrderById(tbl \ {first})

\* A line of print_all_logs: [id] timestamp | check_type | status | params or ''
PrintLine(row) ==
    [log_id |-> row.id,
     timestamp |-> row.timestamp,
     check_type |-> row.check_type,
     status |-> IF row.result # 0 THEN "PASS" ELSE "FAIL",
     params |-> IF row.additional_params.null THEN <<>>
                ELSE row.additional_params.text]


-----------------------------------------------------------------------------
(* The rule engine, main.py.                                               *)

\* _validate_column_exists: the column is in df.columns (else ValueError).
column_exists(df, column) == column \in DOMAIN df

\* A faulty variant of unique_result: nulls are left out of the duplicate count.
unique_result_dropnulls(s) ==
    \A i, j \in DOMAIN s : (i # j /\ s[i] # None) => s[i] # s[j]

\* is_column_unique, line 39
unique_result(s) == sum(is_duplicated(s)) = 0

\* A faulty variant of not_null_result: only the first cell is looked at.
not_null_result_first(s) == Len(s) = 0 \/ s[1] # None

\* is_column_not_null, line 62
not_null_result(s) == null_count(s) = 0

Lower(x) == IF x = "A" THEN "a" ELSE x

\* A faulty variant of enum_result: the match ignores case.
enum_result_nocase(s, accepted_values, mode) ==
    all(is_in([i \in DOMAIN s |-> Lower(s[i])],
              [j \in DOMAIN accepted_values |-> Lower(accepted_values[j])], mode))

\* is_column_enum, line 91
enum_result(s, accepted_values, mode) == all(is_in(s, accepted_values, mode))

\* A faulty variant of referential_result: the parent keys are looked up in the child.
referential_result_swapped(parent_keys, child_keys, mode) ==
    all(is_in(parent_keys, child_keys, mode))

\* are_tables_referential_integral, lines 127-129 (to_list keeps the cells)
referential_result(parent_keys, child_keys, mode) ==
    all(is_in(child_keys, parent_keys, mode))

\* The additional_params each check passes to the logger.
unique_params(column) == PyDict(<<Item("column", JStr(column))>>)

not_null_params(column) == PyDict(<<Item("column", JStr(column))>>)

\* A faulty variant of enum_params: the accepted values are not echoed.
enum_params_nolist(column, accepted_values) ==
    PyDict(<<Item("column", JStr(column))>>)

enum_params(column, accepted_values) ==
    PyDict(<<Item("column", JStr(column)),
             Item("accepted_values", JList(accepted_values))>>)

referential_params(parent_key, child_key) ==
    PyDict(<<Item("parent_key", JStr(parent_key)),
             Item("child_key", JStr(child_key))>>)

-----------------------------------------------------------------------------
(* Concurrent writers and the command line, before any of them has run.    *)

\* The processes that write to one storage location at the same time.
Writers == {"w1", "w2"}

\* A writer's connection: where its log call stands, the arguments of the
\* call, and the row its open transaction has inserted but not committed.
IdleConn ==
    [pc |-> "idle", ts |-> "", check_type |-> "", result |-> FALSE,
     row |-> [id |-> 0, timestamp |-> "", check_type |-> "", result |-> 0,
              additional_params |-> SqlNull],
     done |-> 0, failed |-> 0]

NoConns == [w \in Writers |-> IdleConn]

\* No command has been run.
NoRun ==
    [command |-> "none",
     config |-> "", data |-> "",             \* what the two paths of argv hold
     checks |-> <<>>,                        \* config["checks"]
     series |-> <<>>,                        \* the column "id" of the data file
     tss |-> <<>>, mode |-> "",              \* clock readings, polars build
     results |-> <<>>,                       \* run_checks' results list
     raised |-> "", errcol |-> "",           \* the exception that left run_checks
     returned |-> FALSE, all_passed |-> FALSE,
     exit |-> 0,                             \* the status of sys.exit
     before |-> {}, seq0 |-> 0]              \* the table and counter before the run

-----------------------------------------------------------------------------
(* The client's last call.                                                 *)

Idle ==
    [op |-> "idle",
     columns |-> {}, columns2 |-> {},        \* df.columns of the frame(s)
     column |-> "", column2 |-> "",          \* the column name argument(s)
     series |-> <<>>, series2 |-> <<>>,      \* df[column], once it was found
     accepted |-> <<>>,                      \* accepted_values
     check_type |-> "", result |-> FALSE,    \* arguments of a direct log call
     params |-> PyNone,
     raised |-> "", errcol |-> "",           \* the exception, and the column it names
     returned |-> FALSE, ret |-> FALSE,      \* whether a boolean came back, and it
     steps |-> <<>>,                         \* the statements the call executed
     before |-> {}]                          \* the table when the call began

\* The logger call made by a check: DBConnector.log's effect on the store.
LogWrite(ts, check_type, result, additional_params) ==
    /\ table' = Insert(table, seq, ts, check_type, result, additional_params)
    /\ seq' = NextId(table, seq)
    /\ logged' = Append(logged, [ts |-> ts, check_type |-> check_type,
                                 result |-> result,
                                 additional_params |-> additional_params])
    /\ UNCHANGED <<conns, cli>>

\* A faulty variant of Raise: the failed check is logged before the error is raised.
Raise_logged(c, column) ==
    /\ call' = [c EXCEPT !.raised = "ValueError", !.errcol = column]
    /\ LogWrite("2024-01-01T00:00:00", "error", FALSE, PyNone)
    /\ UNCHANGED printed

\* raise ValueError(f"Column '{column}' not found in DataFrame")
Raise(c, column) ==
    /\ call' = [c EXCEPT !.raised = "ValueError", !.errcol = column]
    /\ UNCHANGED <<table, seq, logged, printed, conns, cli>>

Return(c, result) ==
    /\ call' = [c EXCEPT !.returned = TRUE, !.ret = result]
    /\ UNCHANGED printed

\* DataQualityChecker.is_column_unique
IsColumnUnique ==
    /\ call.op = "idle"
    /\ \E df \in Frames, column \in ArgNames, ts \in Timestamps :
        LET c == [Idle EXCEPT !.op = "is_column_unique", !.columns = DOMAIN df,
                              !.column = column, !.before = table]
        IN  IF ~column_exists(df, column) THEN Raise(c, column)
            ELSE LET result == unique_result(df[column])
                 IN  /\ LogWrite(ts, "unique", result, unique_params(column))
                     /\ Return([c EXCEPT !.series = df[column]], result)

\* DataQualityChecker.is_column_not_null
IsColumnNotNull ==
    /\ call.op = "idle"
    /\ \E df \in Frames, column \in ArgNames, ts \in Timestamps :
        LET c == [Idle EXCEPT !.op = "is_column_not_null", !.columns = DOMAIN df,
                              !.column = column, !.before = table]
        IN  IF ~column_exists(df, column) THEN Raise(c, column)
            ELSE LET result == not_null_result(df[column])
                 IN  /\ LogWrite(ts, "not_null", result, not_null_params(column))
                     /\ Return([c EXCEPT !.series = df[column]], result)

\* DataQualityChecker.is_column_enum
IsColumnEnum ==
    /\ call.op = "idle"
    /\ \E df \in Frames, column \in ArgNames, accepted_values \in AcceptedLists,
          ts \in Timestamps, mode \in IsInModes :
        LET c == [Idle EXCEPT !.op = "is_column_enum", !.columns = DOMAIN df,
                              !.column = column, !.accepted = accepted_values,
                              !.before = table]
        IN  IF ~column_exists(df, column) THEN Raise(c, column)
            ELSE LET result == enum_result(df[column], accepted_values, mode)
                 IN  /\ LogWrite(ts, "accepted_values", result,
                                 enum_params(column, accepted_values))
                     /\ Return([c EXCEPT !.series = df[column]], result)

\* DataQualityChecker.are_tables_referential_integral
AreTablesReferentialIntegral ==
    /\ call.op = "idle"
    /\ \E parent_df \in Frames, child_df \in Frames,
          parent_key \in ArgNames, child_key \in ArgNames,
          ts \in Timestamps, mode \in IsInModes :
        LET c == [Idle EXCEPT !.op = "are_tables_referential_integral",
                              !.columns = DOMAIN parent_df,
                              !.columns2 = DOMAIN child_df,
                              !.column = parent_key, !.column2 = child_key,
                              !.before = table]
        IN  IF ~column_exists(parent_df, parent_key) THEN Raise(c, parent_key)
            ELSE IF ~column_exists(child_df, child_key) THEN Raise(c, child_key)
            ELSE LET parent_keys == parent_df[parent_key]
                     child_keys == child_df[child_key]
                     result == referential_result(parent_keys, child_keys, mode)
                 IN  /\ LogWrite(ts, "referential_integrity", result,
                                 referential_params(parent_key, child_key))
                     /\ Return([c EXCEPT !.series = parent_keys,
                                         !.series2 = child_keys], result)

-----------------------------------------------------------------------------
(* The result logger, connector/output_log.py.                             *)

LogCheckTypes == {"unique", "not_null"}

\* The additional_params of direct log calls: omitted, empty, and non-empty.
LogParams ==
    {PyNone,
     PyDict(<<>>),
     PyDict(<<Item("column", JStr("id"))>>),
     PyDict(<<Item("column", JStr("id")),
              Item("accepted_values", JList(<<"a", None>>))>>)}

\* DBConnector.log
Log ==
    /\ Len(logged) < MaxLog
    /\ \E check_type \in LogCheckTypes, result \in BOOLEAN,
          additional_params \in LogParams, ts \in Timestamps :
        /\ LogWrite(ts, check_type, result, additional_params)
        /\ call' = [Idle EXCEPT !.op = "log", !.check_type = check_type,
                                !.result = result, !.params = additional_params,
                                !.before = table]
        /\ UNCHANGED printed

\* DBConnector.print_all_logs
PrintAllLogs ==
    /\ printed' = [i \in 1..Cardinality(table) |-> PrintLine(OrderById(table)[i])]
    /\ call' = [Idle EXCEPT !.op = "print_all_logs", !.before = table]
    /\ UNCHANGED <<table, seq, logged, conns, cli>>

\* A faulty variant of InitializeDb: the table is dropped and created again.
InitializeDb_recreate ==
    /\ table' = {}
    /\ seq' = 0
    /\ call' = [Idle EXCEPT !.op = "__init__", !.before = table]
    /\ UNCHANGED <<logged, printed, conns, cli>>

\* DBConnector.__init__ on the same location: CREATE TABLE IF NOT EXISTS
\* leaves an existing table as it is.
InitializeDb ==
    /\ call' = [Idle EXCEPT !.op = "__init__", !.before = table]
    /\ UNCHANGED <<table, seq, logged, printed, conns, cli>>

-----------------------------------------------------------------------------
(* Specifications.                                                         *)

\* The records a storage location may already hold when a checker is built
\* on it: none, or those of earlier log calls.
PriorCalls ==
    <<[ts |-> "2024-01-01T00:00:00", check_type |-> "unique", result |-> TRUE,
       additional_params |-> PyDict(<<Item("column", JStr("id"))>>)],
      [ts |-> "2024-01-01T00:00:01", check_type |-> "not_null", result |-> FALSE,
       additional_params |-> PyNone]>>

RECURSIVE TableAfter(_)
TableAfter(calls) ==
    IF calls = <<>> THEN {}
    ELSE LET n == Len(calls)
             prev == TableAfter(SubSeq(calls, 1, n - 1))
         IN  Insert(prev, Cardinality(prev), calls[n].ts, calls[n].check_type,
                    calls[n].result, calls[n].additional_params)

LoggedOf(calls) == calls

\* One check call on a DataQualityChecker whose DBConnector has been built
\* on a location holding zero, one or two earlier records.
Init ==
    /\ \E k \in 0..Len(PriorCalls) :
        /\ table = TableAfter(SubSeq(PriorCalls, 1, k))
        /\ seq = k
        /\ logged = LoggedOf(SubSeq(PriorCalls, 1, k))
    /\ call = Idle
    /\ printed = <<>>
    /\ conns = NoConns
    /\ cli = NoRun

Next ==
    \/ IsColumnUnique
    \/ IsColumnNotNull
    \/ IsColumnEnum
    \/ AreTablesReferentialIntegral

Spec == Init /\ [][Next]_vars

\* The logger alone, from a fresh location after DBConnector(db_path).
InitLog ==
    /\ table = {}
    /\ seq = 0
    /\ logged = <<>>
    /\ call = Idle
    /\ printed = <<>>
    /\ conns = NoConns
    /\ cli = NoRun

NextLog ==
    \/ Log
    \/ PrintAllLogs
    \/ InitializeDb

SpecLog == InitLog /\ [][NextLog]_vars


-----------------------------------------------------------------------------
(* Properties of the rule engine, checked under Spec.                      *)

Found == call.column \in call.columns

NonNull(s) == \A i \in DOMAIN s : s[i] # None

Elems(s) == {s[i] : i \in DOMAIN s}

\* C1: for every DataFrame and every column that exists in it,
\* is_column_not_null returns true if and only if the column contains no
\* null; a zero-row column gives true, a column with a null gives false.
C1_NotNullIffNoNull ==
    (call.op = "is_column_not_null" /\ Found) =>
        /\ call.returned
        /\ call.ret <=> (\A i \in DOMAIN call.series : call.series[i] # None)
        /\ call.series = <<>> => call.ret
        /\ None \in Elems(call.series) => ~call.ret

C1_Witness ==
    /\ call.op = "is_column_not_null"
    /\ call.returned /\ ~call.ret
    /\ call.series = <<"a", None>>

\* C2: for every DataFrame and every column that exists in it,
\* is_column_unique returns true if and only if no value occurs more than
\* once in the column, null being compared like any other value: two nulls
\* give false, one null among distinct values gives true, zero rows give true.
C2_UniqueIffNoRepeat ==
    (call.op = "is_column_unique" /\ Found) =>
        /\ call.returned
        /\ call.ret <=> (\A i, j \in DOMAIN call.series :
                            i # j => call.series[i] # call.series[j])
        /\ call.series = <<>> => call.ret
        /\ Cardinality({i \in DOMAIN call.series : call.series[i] = None}) >= 2
               => ~call.ret

C2_Witness ==
    /\ call.op = "is_column_unique"
    /\ call.returned /\ ~call.ret
    /\ call.series = <<None, None>>

\* C3: for every DataFrame, every existing column whose values are all
\* non-null and every accepted_values list A, is_column_enum returns true if
\* and only if every value of the column is an element of A by exact,
\* case-sensitive match; a zero-row column gives true for any A, and an
\* empty A gives false for every column with at least one row.
C3_EnumIffAllAccepted ==
    (call.op = "is_column_enum" /\ Found /\ NonNull(call.series)) =>
        /\ call.returned
        /\ call.ret <=> (Elems(call.series) \subseteq Elems(call.accepted))
        /\ call.series = <<>> => call.ret
        /\ (call.accepted = <<>> /\ call.series # <<>>) => ~call.ret

C3_Witness ==
    /\ call.op = "is_column_enum"
    /\ call.returned /\ ~call.ret
    /\ call.series = <<"a", "A">>
    /\ call.accepted = <<"a">>

\* C4: for every parent/child pair with existing key columns whose values
\* are non-null, are_tables_referential_integral returns true if and only if
\* the set of child keys is a subset of the set of parent keys; a zero-row
\* child gives true whatever the parent holds.
C4_ReferentialIffSubset ==
    (/\ call.op = "are_tables_referential_integral"
     /\ call.column \in call.columns /\ call.column2 \in call.columns2
     /\ NonNull(call.series) /\ NonNull(call.series2)) =>
        /\ call.returned
        /\ call.ret <=> (Elems(call.series2) \subseteq Elems(call.series))
        /\ call.series2 = <<>> => call.ret

C4_Witness ==
    /\ call.op = "are_tables_referential_integral"
    /\ call.returned /\ ~call.ret
    /\ call.series = <<"a", "a">>
    /\ call.series2 = <<"a", "A">>

\* C5: null cells follow literal membership: is_column_enum returns false
\* for a column containing a null unless null is an element of
\* accepted_values, and are_tables_referential_integral returns false when a
\* child key is null unless the parent key column also contains a null.
C5_NullLiteralMembership ==
    /\ (/\ call.op = "is_column_enum" /\ call.returned
        /\ None \in Elems(call.series)
        /\ None \notin Elems(call.accepted)) => ~call.ret
    /\ (/\ call.op = "are_tables_referential_integral" /\ call.returned
        /\ None \in Elems(call.series2)
        /\ None \notin Elems(call.series)) => ~call.ret

\* C6: each of the four checks, called with a column name absent from the
\* relevant DataFrame (target, parent or child), raises the column-not-found
\* error naming that column, returns no boolean and leaves the log as it was.
Missing ==
    \/ /\ call.op \in {"is_column_unique", "is_column_not_null", "is_column_enum"}
       /\ call.column \notin call.columns
    \/ /\ call.op = "are_tables_referential_integral"
       /\ (call.column \notin call.columns \/ call.column2 \notin call.columns2)

C6_MissingColumnRaisesNoLog ==
    Missing =>
        /\ call.raised = "ValueError"
        /\ call.errcol = (IF call.column \notin call.columns THEN call.column
                          ELSE call.column2)
        /\ ~call.returned
        /\ table = call.before

C6_Witness ==
    /\ call.op = "are_tables_referential_integral"
    /\ call.column \in call.columns
    /\ call.column2 \notin call.columns2
    /\ call.raised = "ValueError"
    /\ call.before # {}

\* Two dicts are equal when they hold the same items, in any order.
DictEq(d1, d2) ==
    /\ Len(d1) = Len(d2)
    /\ {d1[i] : i \in DOMAIN d1} = {d2[i] : i \in DOMAIN d2}

\* The check_type tag of each rule kind.
CheckTag ==
    CASE call.op = "is_column_unique" -> "unique"
      [] call.op = "is_column_not_null" -> "not_null"
      [] call.op = "is_column_enum" -> "accepted_values"
      [] call.op = "are_tables_referential_integral" -> "referential_integrity"
      [] OTHER -> ""

\* The rule inputs each kind echoes.
Echo ==
    CASE call.op = "is_column_enum" ->
            <<Item("column", JStr(call.column)),
              Item("accepted_values", JList(call.accepted))>>
      [] call.op = "are_tables_referential_integral" ->
            <<Item("parent_key", JStr(call.column)),
              Item("child_key", JStr(call.column2))>>
      [] OTHER -> <<Item("column", JStr(call.column))>>

\* C10: every check call that finds its column(s) calls the logger exactly
\* once, with the check_type tag of its rule kind, with a result equal to the
\* boolean it returns (stored as 1 for true, 0 for false) and with
\* additional_params echoing the rule inputs.
C10_CheckLogsOnce ==
    (call.op # "idle" /\ ~Missing) =>
        LET new == table \ call.before
            last == logged[Len(logged)]
        IN  /\ call.returned
            /\ call.before \subseteq table
            /\ Cardinality(new) = 1
            /\ Len(logged) = Cardinality(call.before) + 1
            /\ last.check_type = CheckTag
            /\ last.result = call.ret
            /\ ~last.additional_params.isNone
            /\ DictEq(last.additional_params.items, Echo)
            /\ \A r \in new :
                /\ r.check_type = CheckTag
                /\ r.result = (IF call.ret THEN 1 ELSE 0)
                /\ ~r.additional_params.null
                /\ DictEq(json_loads(r.additional_params.text), Echo)

C10_Witness ==
    /\ call.op = "is_column_enum"
    /\ call.returned /\ ~call.ret
    /\ call.accepted = <<"a", None>>
    /\ call.before # {}

-----------------------------------------------------------------------------
(* Properties of the result logger, checked under SpecLog.                 *)

\* C7: starting from an empty store, after N sequential log calls reading
\* the whole log returns exactly N records, in the order the calls were
\* made, with strictly increasing identifiers; for N = 0 it is empty.
C7_FetchAllInCallOrder ==
    LET rows == OrderById(table)
    IN  /\ Len(rows) = Len(logged)
        /\ \A i \in DOMAIN rows :
            /\ rows[i].timestamp = logged[i].ts
            /\ rows[i].check_type = logged[i].check_type
            /\ rows[i].result = (IF logged[i].result THEN 1 ELSE 0)
        /\ \A i, j \in DOMAIN rows : i < j => rows[i].id < rows[j].id
        /\ call.op = "print_all_logs" =>
            /\ Len(printed) = Len(logged)
            /\ \A i \in DOMAIN printed :
                /\ printed[i].log_id = rows[i].id
                /\ printed[i].timestamp = logged[i].ts
                /\ printed[i].check_type = logged[i].check_type
                /\ printed[i].status = (IF logged[i].result THEN "PASS" ELSE "FAIL")

C7_Witness ==
    /\ call.op = "print_all_logs"
    /\ Len(logged) = 2
    /\ Len(printed) = 2
    /\ logged[1].check_type = "not_null" /\ logged[2].check_type = "unique"
    /\ logged[1].ts # logged[2].ts

\* C8: for every mapping passed as additional_params to log, the empty
\* mapping included, the additional_params text stored in the new record
\* deserializes back to a structure equal to the mapping that was passed.
C8_ParamsRoundTrip ==
    (call.op = "log" /\ ~call.params.isNone) =>
        \A r \in table \ call.before :
            /\ ~r.additional_params.null
            /\ DictEq(json_loads(r.additional_params.text), call.params.items)

\* C9: the additional_params field of a stored record is null exactly when
\* the log call supplied no additional_params; a call that supplies a
\* mapping stores a non-null serialized encoding of it.
C9_NullIffOmitted ==
    call.op = "log" =>
        \A r \in table \ call.before :
            r.additional_params.null <=> call.params.isNone

-----------------------------------------------------------------------------
(* The check calls statement by statement, on a store whose INSERT may     *)
(* fail (sqlite3.OperationalError: disk full, database locked, read-only). *)
(* Each action is the whole call; call.steps lists the statements it ran.  *)

\* _validate_column_exists raises: nothing after it runs.
RaiseAtValidate(c, column) ==
    /\ call' = [c EXCEPT !.steps = <<"validate">>,
                         !.raised = "ValueError", !.errcol = column]
    /\ UNCHANGED <<table, seq, logged, printed, conns, cli>>

\* A faulty variant of LogFails: the store error is swallowed and the boolean returned.
LogFails_swallowed(c, result) ==
    /\ call' = [c EXCEPT !.steps = <<"validate", "compute", "log", "return">>,
                         !.returned = TRUE, !.ret = result]
    /\ UNCHANGED <<table, seq, logged, printed, conns, cli>>

\* self.db_connector.log(...) raises: no row is written, and the error leaves
\* the check method, which has no try block, before its return statement.
LogFails(c, result) ==
    /\ call' = [c EXCEPT !.steps = <<"validate", "compute", "log">>,
                         !.raised = "OperationalError"]
    /\ UNCHANGED <<table, seq, logged, printed, conns, cli>>

\* The log call succeeds and the method returns the result.
LogThenReturn(c, ts, check_type, result, additional_params) ==
    /\ LogWrite(ts, check_type, result, additional_params)
    /\ call' = [c EXCEPT !.steps = <<"validate", "compute", "log", "return">>,
                         !.returned = TRUE, !.ret = result]
    /\ UNCHANGED printed

\* Lines 38-45, 61-68 and 90-100: validate, compute, log, return.
ColumnCheckSteps(c, df, column, ts, check_type, result, additional_params, ok) ==
    IF ~column_exists(df, column) THEN RaiseAtValidate(c, column)
    ELSE IF ok
         THEN LogThenReturn([c EXCEPT !.series = df[column]], ts, check_type,
                            result, additional_params)
         ELSE LogFails([c EXCEPT !.series = df[column]], result)

IsColumnUniqueSteps ==
    /\ call.op = "idle"
    /\ \E df \in Frames, column \in ArgNames, ts \in Timestamps, ok \in BOOLEAN :
        LET c == [Idle EXCEPT !.op = "is_column_unique", !.columns = DOMAIN df,
                              !.column = column, !.before = table]
        IN  ColumnCheckSteps(c, df, column, ts, "unique",
                             unique_result(df[column]), unique_params(column), ok)

IsColumnNotNullSteps ==
    /\ call.op = "idle"
    /\ \E df \in Frames, column \in ArgNames, ts \in Timestamps, ok \in BOOLEAN :
        LET c == [Idle EXCEPT !.op = "is_column_not_null", !.columns = DOMAIN df,
                              !.column = column, !.before = table]
        IN  ColumnCheckSteps(c, df, column, ts, "not_null",
                             not_null_result(df[column]), not_null_params(column), ok)

IsColumnEnumSteps ==
    /\ call.op = "idle"
    /\ \E df \in Frames, column \in ArgNames, accepted_values \in AcceptedLists,
          ts \in Timestamps, mode \in IsInModes, ok \in BOOLEAN :
        LET c == [Idle EXCEPT !.op = "is_column_enum", !.columns = DOMAIN df,
                              !.column = column, !.accepted = accepted_values,
                              !.before = table]
        IN  ColumnCheckSteps(c, df, column, ts, "accepted_values",
                             enum_result(df[column], accepted_values, mode),
                             enum_params(column, accepted_values), ok)

\* Lines 124-139: validate the parent key, then the child key, compute, log, return.
AreTablesReferentialIntegralSteps ==
    /\ call.op = "idle"
    /\ \E parent_df \in Frames, child_df \in Frames,
          parent_key \in ArgNames, child_key \in ArgNames,
          ts \in Timestamps, mode \in IsInModes, ok \in BOOLEAN :
        LET c == [Idle EXCEPT !.op = "are_tables_referential_integral",
                              !.columns = DOMAIN parent_df,
                              !.columns2 = DOMAIN child_df,
                              !.column = parent_key, !.column2 = child_key,
                              !.before = table]
        IN  IF ~column_exists(parent_df, parent_key)
                THEN RaiseAtValidate(c, parent_key)
            ELSE IF ~column_exists(child_df, child_key)
                THEN RaiseAtValidate(c, child_key)
            ELSE LET parent_keys == parent_df[parent_key]
                     child_keys == child_df[child_key]
                     result == referential_result(parent_keys, child_keys, mode)
                     cc == [c EXCEPT !.series = parent_keys, !.series2 = child_keys]
                 IN  IF ok
                     THEN LogThenReturn(cc, ts, "referential_integrity", result,
                                        referential_params(parent_key, child_key))
                     ELSE LogFails(cc, result)

NextSteps ==
    \/ IsColumnUniqueSteps
    \/ IsColumnNotNullSteps
    \/ IsColumnEnumSteps
    \/ AreTablesReferentialIntegralSteps

\* One check call, as in Spec, on a store whose write may fail.
SpecSteps == Init /\ [][NextSteps]_vars

AllSteps == <<"validate", "compute", "log", "return">>

\* C11: within every check call the steps happen in the order validate
\* columns, compute outcome, write log, return outcome: the log write is
\* never attempted before all referenced columns are validated and the
\* outcome computed, and when the log write fails the error propagates to
\* the caller, so that no boolean is returned for that call.
C11_ValidateComputeLogReturn ==
    call.op # "idle" =>
        /\ \E n \in 1..4 : call.steps = SubSeq(AllSteps, 1, n)
        /\ Missing <=> call.steps = <<"validate">>
        /\ Missing => (call.raised = "ValueError" /\ table = call.before)
        /\ call.raised = "OperationalError" <=> call.steps = SubSeq(AllSteps, 1, 3)
        /\ call.raised = "OperationalError" => table = call.before
        /\ call.returned <=> call.steps = AllSteps
        /\ call.returned => (call.raised = "" /\ table # call.before)
        /\ call.raised # "" => ~call.returned

C11_Witness ==
    /\ call.op = "are_tables_referential_integral"
    /\ call.raised = "OperationalError"
    /\ call.steps = <<"validate", "compute", "log">>
    /\ call.series2 = <<"a", "A">>
    /\ ~call.returned
    /\ call.before # {}

-----------------------------------------------------------------------------
(* Properties of the store across calls, checked under SpecLog.            *)

\* C12: the log is append-only across any sequence of DBConnector
\* construction, log and print_all_logs calls on one storage location: a
\* record once written keeps its identifier and field values, is never
\* removed, and its identifier is never given to another record; building a
\* new DBConnector on a location that holds records leaves them unchanged
\* and does not raise.
C12_AppendOnly ==
    [][/\ table \subseteq table'
       /\ \A r, q \in table' : r.id = q.id => r = q
       /\ \A r \in table' \ table : \A q \in table : q.id < r.id
       /\ call'.op \in {"__init__", "print_all_logs"} =>
              (table' = table /\ seq' = seq /\ call'.raised = "")]_vars

C12_Witness ==
    /\ call.op = "__init__"
    /\ Cardinality(table) = 2
    /\ call.before = table
    /\ call.raised = ""

-----------------------------------------------------------------------------
(* Concurrent writers: DBConnector.log called from several processes on    *)
(* one storage location.  A call opens its own connection (line 51); the   *)
(* INSERT (lines 52-63) begins a transaction that holds SQLite's write     *)
(* lock until the with block commits it.                                   *)

\* A faulty variant of ReservedFree: ids are taken without the write lock.
ReservedFree_nolock(w) == TRUE

\* No other connection has an open write transaction.
ReservedFree(w) == \A v \in Writers \ {w} : conns[v].pc # "inserted"

RECURSIVE SumOver(_, _)
SumOver(f, S) ==
    IF S = {} THEN 0
    ELSE LET x == CHOOSE y \in S : TRUE
         IN  f[x] + SumOver(f, S \ {x})

\* The log calls begun so far, by all writers.
Begun ==
    SumOver([w \in Writers |-> conns[w].done + conns[w].failed
                               + (IF conns[w].pc = "inserted" THEN 1 ELSE 0)],
            Writers)

\* conn.execute(INSERT ...) gets the write lock: the row takes the next id of
\* the committed table and stays in the writer's transaction.
WriterInsert(w) ==
    /\ conns[w].pc = "idle"
    /\ Begun < MaxLog
    /\ ReservedFree(w)
    /\ \E check_type \in LogCheckTypes, result \in BOOLEAN, ts \in Timestamps :
        conns' = [conns EXCEPT ![w].pc = "inserted",
                               ![w].ts = ts,
                               ![w].check_type = check_type,
                               ![w].result = result,
                               ![w].row = NewRow(table, seq, ts, check_type,
                                                 result, PyNone)]
    /\ UNCHANGED <<table, seq, logged, call, printed, cli>>

\* conn.execute(INSERT ...) while another connection holds the write lock:
\* after the busy timeout it raises "database is locked" and nothing is written.
WriterBusy(w) ==
    /\ conns[w].pc = "idle"
    /\ Begun < MaxLog
    /\ ~ReservedFree(w)
    /\ conns' = [conns EXCEPT ![w].failed = @ + 1]
    /\ UNCHANGED <<table, seq, logged, call, printed, cli>>

\* Leaving the with block commits: the row and the new sqlite_sequence value
\* become visible, and the lock is released.
WriterCommit(w) ==
    /\ conns[w].pc = "inserted"
    /\ table' = table \cup {conns[w].row}
    /\ seq' = conns[w].row.id
    /\ logged' = Append(logged, [ts |-> conns[w].ts,
                                 check_type |-> conns[w].check_type,
                                 result |-> conns[w].result,
                                 additional_params |-> PyNone])
    /\ conns' = [conns EXCEPT ![w].pc = "idle", ![w].done = @ + 1]
    /\ UNCHANGED <<call, printed, cli>>

\* The commit fails (I/O error): the transaction is rolled back when the
\* connection goes away, with the row and the id it had taken.
WriterRollback(w) ==
    /\ conns[w].pc = "inserted"
    /\ conns' = [conns EXCEPT ![w].pc = "idle", ![w].failed = @ + 1]
    /\ UNCHANGED <<table, seq, logged, call, printed, cli>>

NextWriters ==
    \E w \in Writers :
        \/ WriterInsert(w)
        \/ WriterBusy(w)
        \/ WriterCommit(w)
        \/ WriterRollback(w)

\* Writers on a fresh location.
SpecWriters == InitLog /\ [][NextWriters]_vars

Completed == SumOver([w \in Writers |-> conns[w].done], Writers)

\* C13: when several writers call log concurrently against one storage
\* location, every interleaving leaves a log in which no two records share
\* an identifier and the identifiers have no gaps: after K completed log
\* calls on a fresh store the identifiers are exactly 1..K.
C13_ConcurrentIdsDense ==
    /\ Cardinality(table) = Completed
    /\ {r.id : r \in table} = 1..Completed
    /\ \A r, q \in table : r.id = q.id => r = q

C13_Witness ==
    /\ conns["w1"].done = 1
    /\ conns["w2"].done = 1
    /\ Cardinality(table) = 2

-----------------------------------------------------------------------------
(* The command line, cli.py.                                               *)

KnownTypes == {"not_null", "unique", "accepted_values"}

\* A rule of the config, after check["type"], check.get("column", "") and
\* check.get("values", []).
Rules ==
    {[type |-> "not_null", column |-> c, values |-> <<>>] : c \in {"id", "missing"}}
    \cup {[type |-> "unique", column |-> "id", values |-> <<>>],
          [type |-> "accepted_values", column |-> "id", values |-> <<"a">>],
          [type |-> "unknown_check", column |-> "id", values |-> <<>>]}

Configs == SeqsUpTo(Rules, MaxRules)

\* What the --config path holds, and what the data path holds.
ConfigStates == {"missing", "not_mapping", "no_checks", "ok"}
DataStates == {"missing", "unsupported", "csv", "parquet"}

\* load_config, lines 28-40
load_config(config) ==
    CASE config = "missing" -> "FileNotFoundError"
      [] config = "not_mapping" -> "ValueError"
      [] config = "no_checks" -> "ValueError"
      [] OTHER -> ""

\* _load_data, lines 56-66
load_data(data) ==
    CASE data = "missing" -> "FileNotFoundError"
      [] data = "unsupported" -> "ValueError"
      [] OTHER -> ""

\* A faulty variant of Dispatch: the unique rule runs the not-null check.
Dispatch_copied(check_type) ==
    CASE check_type = "not_null" -> "is_column_not_null"
      [] check_type = "unique" -> "is_column_not_null"
      [] check_type = "accepted_values" -> "is_column_enum"
      [] OTHER -> "skip"

\* run_checks, lines 91-100: the method a rule kind is sent to.
Dispatch(check_type) ==
    CASE check_type = "not_null" -> "is_column_not_null"
      [] check_type = "unique" -> "is_column_unique"
      [] check_type = "accepted_values" -> "is_column_enum"
      [] OTHER -> "skip"

\* What the method computes, and what it hands to the logger.
MethodResult(method, s, values, mode) ==
    CASE method = "is_column_not_null" -> not_null_result(s)
      [] method = "is_column_unique" -> unique_result(s)
      [] OTHER -> enum_result(s, values, mode)

MethodTag(method) ==
    CASE method = "is_column_not_null" -> "not_null"
      [] method = "is_column_unique" -> "unique"
      [] OTHER -> "accepted_values"

MethodParams(method, column, values) ==
    CASE method = "is_column_not_null" -> not_null_params(column)
      [] method = "is_column_unique" -> unique_params(column)
      [] OTHER -> enum_params(column, values)

\* A faulty variant of SkipUnknown: the unknown rule is counted as a failed check.
SkipUnknown_failed(st, check) ==
    [st EXCEPT !.results = Append(@, [check_type |-> check.type,
                                      column |-> check.column,
                                      status |-> "FAIL"])]

\* Lines 98-100: print "Unknown check type", continue.
SkipUnknown(st, check) == st

\* The state of the loop of run_checks: the store, the log calls made, the
\* results list, and the exception that ended the loop.
LoopStart(tbl, sq) ==
    [table |-> tbl, seq |-> sq, newlog |-> <<>>, results |-> <<>>,
     raised |-> "", errcol |-> ""]

\* The method called for one rule: it raises on a missing column, else it
\* logs its result and the loop appends (check_type, column, status).
RunRule(st, check, method, df, tss, mode) ==
    IF ~column_exists(df, check.column)
    THEN [st EXCEPT !.raised = "ValueError", !.errcol = check.column]
    ELSE LET passed == MethodResult(method, df[check.column], check.values, mode)
             ts == tss[Len(st.newlog) + 1]
             additional_params == MethodParams(method, check.column, check.values)
         IN  [st EXCEPT
                 !.table = Insert(st.table, st.seq, ts, MethodTag(method),
                                  passed, additional_params),
                 !.seq = NextId(st.table, st.seq),
                 !.newlog = Append(@, [ts |-> ts, check_type |-> MethodTag(method),
                                       result |-> passed,
                                       additional_params |-> additional_params]),
                 !.results = Append(@, [check_type |-> check.type,
                                        column |-> check.column,
                                        status |-> IF passed THEN "PASS"
                                                   ELSE "FAIL"])]

\* run_checks, lines 86-103: for check in checks.
RECURSIVE RunLoop(_, _, _, _, _)
RunLoop(st, checks, df, tss, mode) ==
    IF checks = <<>> \/ st.raised # "" THEN st
    ELSE LET check == Head(checks)
             method == Dispatch(check.type)
         IN  IF method = "skip"
             THEN RunLoop(SkipUnknown(st, check), Tail(checks), df, tss, mode)
             ELSE RunLoop(RunRule(st, check, method, df, tss, mode),
                          Tail(checks), df, tss, mode)

\* Line 112: all(r[2] == "PASS" for r in results)
all_passed(results) == \A i \in DOMAIN results : results[i].status = "PASS"

\* A faulty variant of ExitStatus: a failed rule does not change the status.
ExitStatus_errors_only(raised, passed) == IF raised = "" THEN 0 ELSE 1

\* main, lines 149-156: exit 0 if all_passed else 1; 1 on a caught error.
ExitStatus(raised, passed) == IF raised = "" /\ passed THEN 0 ELSE 1

\* datetime.now() at the log calls of one run: the first within one second,
\* the later ones within the next.
Clock ==
    [i \in 1..MaxRules |-> IF i = 1 THEN "2024-01-01T00:00:00"
                                   ELSE "2024-01-01T00:00:01"]

\* dqc check <file> --config <path>, the config cannot be loaded.
CheckConfigError ==
    /\ cli.command = "none"
    /\ \E config \in ConfigStates \ {"ok"}, data \in DataStates :
        cli' = [NoRun EXCEPT !.command = "check", !.config = config, !.data = data,
                             !.raised = load_config(config),
                             !.exit = ExitStatus(load_config(config), FALSE),
                             !.before = table, !.seq0 = seq]
    /\ UNCHANGED <<table, seq, logged, call, printed, conns>>

\* dqc check: the config loads, the data file does not (run_checks line 82,
\* before the DBConnector is built).
CheckDataError ==
    /\ cli.command = "none"
    /\ \E data \in {"missing", "unsupported"}, checks \in Configs :
        cli' = [NoRun EXCEPT !.command = "check", !.config = "ok", !.data = data,
                             !.checks = checks,
                             !.raised = load_data(data),
                             !.exit = ExitStatus(load_data(data), FALSE),
                             !.before = table, !.seq0 = seq]
    /\ UNCHANGED <<table, seq, logged, call, printed, conns>>

\* dqc check: config and data load, the rules are run.
CheckRun ==
    /\ cli.command = "none"
    /\ \E data \in {"csv", "parquet"}, checks \in Configs,
          series \in SeqsUpTo(Cells, MaxRows), mode \in IsInModes :
        LET df == [c \in {"id"} |-> series]
            tss == Clock
            st == RunLoop(LoopStart(table, seq), checks, df, tss, mode)
            ok == st.raised = ""
        IN  /\ table' = st.table
            /\ seq' = st.seq
            /\ logged' = logged \o st.newlog
            /\ cli' = [NoRun EXCEPT
                   !.command = "check", !.config = "ok", !.data = data,
                   !.checks = checks, !.series = series,
                   !.tss = tss, !.mode = mode,
                   !.results = st.results,
                   !.raised = st.raised, !.errcol = st.errcol,
                   !.returned = ok,
                   !.all_passed = ok /\ all_passed(st.results),
                   !.exit = ExitStatus(st.raised, all_passed(st.results)),
                   !.before = table, !.seq0 = seq]
    /\ UNCHANGED <<call, printed, conns>>

NextCli ==
    \/ CheckConfigError
    \/ CheckDataError
    \/ CheckRun

\* One run of the check command; the db path of the config holds no record
\* yet, or the records of two earlier log calls.
InitCli ==
    /\ \E k \in {0, Len(PriorCalls)} :
        /\ table = TableAfter(SubSeq(PriorCalls, 1, k))
        /\ seq = k
        /\ logged = LoggedOf(SubSeq(PriorCalls, 1, k))
    /\ call = Idle
    /\ printed = <<>>
    /\ conns = NoConns
    /\ cli = NoRun

SpecCli == InitCli /\ [][NextCli]_vars

-----------------------------------------------------------------------------
(* The exit status of the check command.                                   *)

\* The run could not load its config or its data file.
LoadError == cli.config # "ok" \/ cli.data \in {"missing", "unsupported"}

\* Some rule the run evaluated gave the verdict FAIL.
SomeFailed == \E i \in DOMAIN cli.results : cli.results[i].status = "FAIL"

\* C14: the check command exits 0 exactly when the run met no error and every
\* rule it evaluated passed; it exits 1 when a rule failed and on each
\* load/config error (config file missing, not a mapping, without a checks
\* key; data file missing, of an unsupported format), which it meets before
\* it touches the log; run_checks returns true exactly when it returns and
\* no evaluated rule failed.
C14_ExitStatus ==
    cli.command = "check" =>
        /\ cli.exit \in {0, 1}
        /\ cli.exit = 0 <=> (cli.raised = "" /\ ~SomeFailed)
        /\ SomeFailed => cli.exit = 1
        /\ LoadError =>
            /\ cli.exit = 1
            /\ cli.raised \in {"FileNotFoundError", "ValueError"}
            /\ ~cli.returned
            /\ cli.results = <<>>
            /\ table = cli.before
        /\ cli.config = "missing" => cli.raised = "FileNotFoundError"
        /\ (cli.config = "ok" /\ cli.data = "missing")
               => cli.raised = "FileNotFoundError"
        /\ (cli.config = "ok" /\ cli.data = "unsupported")
               => cli.raised = "ValueError"
        /\ cli.returned <=> cli.raised = ""
        /\ cli.returned => (cli.all_passed <=> ~SomeFailed)
        /\ cli.all_passed => cli.returned

\* A run that evaluated a passing rule and then a failing one, and exited 1.
C14_Witness ==
    /\ cli.command = "check"
    /\ cli.returned
    /\ Len(cli.results) = 2
    /\ cli.results[1].status = "PASS"
    /\ cli.results[2].status = "FAIL"
    /\ cli.exit = 1

-----------------------------------------------------------------------------
(* Rules of an unknown kind.                                               *)

IsKnown(check) == check.type \in KnownTypes

\* The config with the rules of unknown kind removed.
Known(checks) == SelectSeq(checks, IsKnown)

\* C15: a rule of a kind run_checks does not recognise is skipped without
\* error: the run leaves the same log, the same results and the same
\* pass/fail value as a run of the same config without its unknown rules;
\* no entry of the results names an unknown kind, and a config of unknown
\* rules only returns true with the log untouched.
C15_UnknownSkipped ==
    (cli.command = "check" /\ ~LoadError) =>
        LET df == [c \in {"id"} |-> cli.series]
            same == RunLoop(LoopStart(cli.before, cli.seq0), Known(cli.checks),
                            df, cli.tss, cli.mode)
        IN  /\ table = same.table
            /\ seq = same.seq
            /\ cli.results = same.results
            /\ cli.raised = same.raised
            /\ cli.returned <=> same.raised = ""
            /\ cli.all_passed <=> (same.raised = "" /\ all_passed(same.results))
            /\ \A i \in DOMAIN cli.results : cli.results[i].check_type \in KnownTypes
            /\ Known(cli.checks) = <<>> =>
                /\ cli.returned /\ cli.all_passed
                /\ cli.results = <<>>
                /\ table = cli.before

\* A run whose config holds an unknown rule before a rule that fails.
C15_Witness ==
    /\ cli.command = "check"
    /\ cli.returned
    /\ Len(cli.checks) = 2
    /\ ~IsKnown(cli.checks[1])
    /\ IsKnown(cli.checks[2])
    /\ Len(cli.results) = 1
    /\ ~cli.all_passed

-----------------------------------------------------------------------------
(* A rule on a column the data does not have.                              *)

\* The rules of the run's config that are of a known kind and name a column
\* of the data.
Evaluable ==
    LET df == [c \in {"id"} |-> cli.series]
    IN  {i \in DOMAIN cli.checks :
            IsKnown(cli.checks[i]) /\ column_exists(df, cli.checks[i].column)}

\* C16: in run_checks a rule on a column absent from the data aborts that
\* rule only: every rule of a known kind whose column exists, the ones after
\* the aborted rule included, is evaluated and gets its log record.
C16_MissingColumnAbortsOneRule ==
    (cli.command = "check" /\ ~LoadError) =>
        /\ Len(cli.results) = Cardinality(Evaluable)
        /\ Cardinality(table \ cli.before) = Cardinality(Evaluable)

-----------------------------------------------------------------------------
(* The records of one run.                                                 *)

\* The records the run appended, in id order.
Gained == OrderById(table \ cli.before)

\* The verdict a rule has on a series, from the meaning of its kind.
Verdict(check, s, mode) ==
    CASE check.type = "not_null" -> \A i \in DOMAIN s : s[i] # None
      [] check.type = "unique" ->
            \A i, j \in DOMAIN s : i # j => s[i] # s[j]
      [] OTHER -> all(is_in(s, check.values, mode))

\* C17: when run_checks returns, the log has gained exactly one record per
\* rule of a known kind, in config order, each with the check_type of its
\* rule and the result of that rule (the one reported in results, which is
\* the rule's verdict on the column); the records already stored are
\* unchanged and have smaller ids than the new ones.
C17_OneRecordPerRule ==
    (cli.command = "check" /\ cli.returned) =>
        LET rules == Known(cli.checks)
        IN  /\ Len(Gained) = Len(rules)
            /\ Len(cli.results) = Len(rules)
            /\ \A i \in DOMAIN rules :
                /\ Gained[i].check_type = rules[i].type
                /\ cli.results[i].check_type = rules[i].type
                /\ cli.results[i].column = rules[i].column
                /\ Gained[i].result = int(cli.results[i].status = "PASS")
                /\ Gained[i].result
                       = int(Verdict(rules[i], cli.series, cli.mode))
            /\ \A i, j \in DOMAIN Gained : i < j => Gained[i].id < Gained[j].id
            /\ cli.before \subseteq table
            /\ \A old \in cli.before : \A i \in DOMAIN Gained : old.id < Gained[i].id

\* A run on a store that held two records, with two rules of different
\* kinds and different results.
C17_Witness ==
    /\ cli.command = "check"
    /\ cli.returned
    /\ Cardinality(cli.before) = 2
    /\ Len(Gained) = 2
    /\ Gained[1].check_type # Gained[2].check_type
    /\ Gained[1].result # Gained[2].result

=============================================================================
